---- MODULE Spec2Model ----
(***************************************************************************)
(* View lifecycle of the calling stateful client.                          *)
(*                                                                         *)
(* The module models packages/calling-stateful-client/src/StreamUtils.ts:  *)
(* createView / disposeView / disposeAllViewsFromCall / disposeAllViews    *)
(* over the render-info registry (InternalCallContext) and the published   *)
(* views of the state store (CallContext).  A create-view call is split at *)
(* its only suspension point, `await renderer.createView(options)`.        *)
(*                                                                         *)
(* It also models packages/calling-stateful-client/src/                    *)
(* StatefulCallClient.ts: the createView / disposeView entry points of the *)
(* client (DispatchSpec), the intercepted createCallAgent and              *)
(* getDeviceManager calls of ProxyCallClient (ClientSpec), and the         *)
(* subscribers of the state store (StoreSpec).                             *)
(***************************************************************************)
EXTENDS Integers, FiniteSets, Sequences, TLC

(* ----------------------------- bounds ---------------------------------- *)

\* Number of VideoStreamRenderer objects that may be constructed in a run.
MaxRenderers == 2

(* --------------------------- value spaces ------------------------------ *)

Undefined == "undefined"
NoId == "noid"

Calls == {"c1", "c2"}

\* The calls in progress in the runs of Spec.
ActiveCalls == {"c1"}
Participants == {"p1"}
StreamIds == {"s1"}
LocalObjs == {"u1"}

Renderers == 1..MaxRenderers
NoRenderer == 0
NoView == 0

\* Declarative streams handed to createView / disposeView.  A
\* RemoteVideoStreamState carries an `id`; a LocalVideoStreamState does not.
RemoteStreamStates == [id : StreamIds, obj : {"remote"}]
LocalStreamStates == [id : {NoId}, obj : LocalObjs]
StreamStates == RemoteStreamStates \cup LocalStreamStates

\* 'id' in stream
HasId(stream) == stream.id # NoId

Requests == [callId : ActiveCalls \cup {Undefined},
             participantId : Participants \cup {Undefined},
             stream : StreamStates]

\* Render keys of the three lookup structures of the registry.
RemoteKey(c, p, s) == [cls |-> "remote", call |-> c, part |-> p, id |-> s]
LocalKey(c) == [cls |-> "local", call |-> c, part |-> "-", id |-> "-"]
UnparentedKey(o) == [cls |-> "unparented", call |-> "-", part |-> "-", id |-> o]

RemoteKeys == {RemoteKey(c, p, s) : c \in Calls, p \in Participants, s \in StreamIds}
LocalKeys == {LocalKey(c) : c \in Calls}
UnparentedKeys == {UnparentedKey(o) : o \in LocalObjs}
CallKeys == RemoteKeys \cup LocalKeys
Keys == CallKeys \cup UnparentedKeys
ActiveKeys == {k \in CallKeys : k.call \in ActiveCalls}
InvalidKey == [cls |-> "invalid", call |-> "-", part |-> "-", id |-> "-"]

\* SDK stream objects held by the registry: `id` as the SDK stream carries it,
\* `ver` the identity of the object.
NoStream == [id |-> NoId, ver |-> 0]
SdkRemoteStream(s) == [id |-> s, ver |-> 1]
SdkLocalStream == [id |-> NoId, ver |-> 1]

Absent == [stream |-> NoStream, status |-> "Absent", renderer |-> NoRenderer]
NoTask == [state |-> "none", key |-> InvalidKey, stream |-> NoStream, seen |-> "none"]

(* ------------------------------ state ---------------------------------- *)

VARIABLES
  registry,      \* InternalCallContext: key -> StreamRenderInfo or Absent
  views,         \* CallContext: key -> published view (renderer that made it) or NoView
  inSnapshot,    \* CallContext: does the call/participant/stream of a key exist in the state
  disposeCount,  \* number of dispose() calls made on each renderer
  task,          \* one create-view call per constructed renderer, suspended at the await
  nextRenderer,  \* number of renderers constructed so far
  lastCall,      \* the operation that ran last and what it returned
  request,       \* the arguments of the createView / disposeView call that ran last
  client,        \* StatefulCallClient: ProxyCallClient fields, error log, subscribers
  editBox,       \* ChatMessageComponentAsEditBox: textValue and the last event's outcome
  gridLayout     \* GridLayout: props, blockProps and the rendered grid style

viewVars == <<registry, views, inSnapshot, disposeCount, task, nextRenderer, lastCall>>
uiVars == <<editBox, gridLayout>>
vars == <<registry, views, inSnapshot, disposeCount, task, nextRenderer, lastCall, request, client,
          editBox, gridLayout>>

World == [registry |-> registry, views |-> views, disposeCount |-> disposeCount, task |-> task]

\* Bookkeeping: a renderer whose call is over, that nothing references and
\* that was disposed exactly once (or whose creation failed) keeps only its
\* dispose count.
Released(w, r) ==
  /\ w.task[r].state \in {"created", "failed"}
  /\ \A k \in Keys : w.registry[k].renderer # r /\ w.views[k] # r
  /\ (w.task[r].state = "failed" \/ w.disposeCount[r] = 1)

Commit(w) ==
  /\ registry' = w.registry
  /\ views' = w.views
  /\ disposeCount' = w.disposeCount
  /\ task' = [r \in Renderers |-> IF Released(w, r) THEN [NoTask EXCEPT !.state = "done"] ELSE w.task[r]]

Call(op, k, result, r) == [op |-> op, key |-> k, result |-> result, r |-> r, seen |-> "none"]

\* No createView / disposeView arguments recorded.
NoRequest == [op |-> "none", callId |-> Undefined, participantId |-> Undefined,
              stream |-> [id |-> NoId, obj |-> "none"]]

ViewInit ==
  /\ registry = [k \in Keys |-> Absent]
  /\ views = [k \in Keys |-> NoView]
  /\ inSnapshot = [k \in Keys |-> FALSE]
  /\ disposeCount = [r \in Renderers |-> 0]
  /\ task = [r \in Renderers |-> NoTask]
  /\ nextRenderer = 0
  /\ lastCall = Call("init", InvalidKey, "none", NoRenderer)
  /\ request = NoRequest

(* ------------------------ registry and store --------------------------- *)

\* internalContext.get*RenderInfo
GetRenderInfo(w, k) == w.registry[k]

\* internalContext.set*RenderInfo: upsert, replaces the entry wholesale.
SetRenderInfo(w, k, stream, status, renderer) ==
  [w EXCEPT !.registry[k] = [stream |-> stream, status |-> status, renderer |-> renderer]]

\* internalContext.delete*RenderInfo
DeleteRenderInfo(w, k) == [w EXCEPT !.registry[k] = Absent]

\* Mutant: the view setters write whether or not the target exists.
SetRendererViewUnguarded(w, k, v) == [w EXCEPT !.views[k] = v]

\* context.set*VideoStreamRendererView / setDeviceManagerUnparentedView /
\* deleteDeviceManagerUnparentedView: a no-op when the target call,
\* participant or stream is not in the snapshot.
SetRendererView(w, k, v) ==
  IF k.cls = "unparented" \/ inSnapshot[k]
    THEN [w EXCEPT !.views[k] = v]
    ELSE w

\* renderer.dispose()
DisposeRenderer(w, r) == [w EXCEPT !.disposeCount[r] = @ + 1]

\* The create-view calls suspended on key k.
Suspended(w, k) == {r \in Renderers : w.task[r].state = "suspended" /\ w.task[r].key = k}

\* Bookkeeping for the properties: what happened to the key of a suspended
\* create-view call since it suspended.  "dup": only further create-view
\* calls; "cancelled": a dispose-view, and no removal; "removed": its stream
\* was removed; "overlap": it started while another create-view was suspended
\* on the key.
Rank(seen) ==
  CASE seen = "none" -> 0
    [] seen = "dup" -> 1
    [] seen = "cancelled" -> 2
    [] seen = "removed" -> 3
    [] OTHER -> 4

Note(w, k, event) ==
  [w EXCEPT !.task = [r \in Renderers |->
     IF r \in Suspended(w, k) /\ Rank(event) > Rank(w.task[r].seen)
       THEN [w.task[r] EXCEPT !.seen = event]
       ELSE w.task[r]]]

(* --------------------------- create-view ------------------------------- *)

\* Mutant: the 'Rendered' check is missing.
AlreadyRenderedUnchecked(renderInfo) == FALSE

\* `if (renderInfo.status === 'Rendered') return;`
AlreadyRendered(renderInfo) == renderInfo.status = "Rendered"

\* Mutant: the 'Rendering' check is missing.
AlreadyRenderingUnchecked(renderInfo) == FALSE

\* `if (renderInfo.status === 'Rendering') return;`
AlreadyRendering(renderInfo) == renderInfo.status = "Rendering"

\* Mutant: the 'Stopping' check is missing.
IsStoppingUnchecked(renderInfo) == FALSE

\* `if (renderInfo.status === 'Stopping') return;`
IsStopping(renderInfo) == renderInfo.status = "Stopping"

\* Mutant: a missing entry is not rejected.
NotFoundUnchecked(renderInfo) == FALSE

\* `if (!renderInfo) return;` of createViewRemoteVideo / createViewLocalVideo.
NotFound(renderInfo) == renderInfo.status = "Absent"

\* What a create-view call leaves behind when it reaches its await.
Suspend(w, k, r, stream) ==
  [w EXCEPT !.task[r] = [NoTask EXCEPT !.state = "suspended", !.key = k, !.stream = stream,
                                       !.seen = IF Suspended(w, k) = {} THEN "none" ELSE "overlap"]]

Empty(w) == [w |-> w, result |-> "empty"]
Started(w) == [w |-> w, result |-> "started"]

\* createViewRemoteVideo up to `await renderer.createView(options)`;
\* r is the renderer `new VideoStreamRenderer(renderInfo.stream)` builds.
CreateViewRemoteVideoBegin(w, k, r) ==
  LET renderInfo == GetRenderInfo(w, k)
  IN IF NotFound(renderInfo) THEN Empty(w)
     ELSE IF AlreadyRendered(renderInfo) THEN Empty(w)
     ELSE IF AlreadyRendering(renderInfo) THEN Empty(Note(w, k, "dup"))
     ELSE IF IsStopping(renderInfo) THEN Empty(w)
     ELSE Started(Suspend(SetRenderInfo(w, k, renderInfo.stream, "Rendering", NoRenderer),
                          k, r, renderInfo.stream))

\* createViewLocalVideo up to the await.  The entry is written with the
\* renderer already in it.
CreateViewLocalVideoBegin(w, k, r) ==
  LET renderInfo == GetRenderInfo(w, k)
  IN IF NotFound(renderInfo) THEN Empty(w)
     ELSE IF AlreadyRendered(renderInfo) THEN Empty(w)
     ELSE IF AlreadyRendering(renderInfo) THEN Empty(Note(w, k, "dup"))
     ELSE IF IsStopping(renderInfo) THEN Empty(w)
     ELSE Started(Suspend(SetRenderInfo(w, k, renderInfo.stream, "Rendering", r),
                          k, r, renderInfo.stream))

\* createViewUnparentedVideo up to the await.  An absent entry is not
\* rejected; the entry holds the LocalVideoStream built by this call.
CreateViewUnparentedVideoBegin(w, k, r) ==
  LET renderInfo == GetRenderInfo(w, k)
      localVideoStream == [id |-> NoId, ver |-> r]
  IN IF renderInfo.status # "Absent" /\ AlreadyRendered(renderInfo) THEN Empty(w)
     ELSE IF renderInfo.status # "Absent" /\ AlreadyRendering(renderInfo)
       THEN Empty(Note(w, k, "dup"))
     ELSE IF renderInfo.status # "Absent" /\ IsStopping(renderInfo) THEN Empty(w)
     ELSE Started(Suspend(SetRenderInfo(w, k, localVideoStream, "Rendering", NoRenderer),
                          k, r, localVideoStream))

\* Mutant: the create-view call never returns.
FinishNever(w, r, state) == w

\* The create-view call of renderer r has returned or thrown.
Finish(w, r, state) ==
  [w EXCEPT !.task[r] = [NoTask EXCEPT !.state = state, !.key = w.task[r].key]]

\* `refreshedRenderInfo.status === 'Stopping'`
StopRequested(refreshedRenderInfo) == refreshedRenderInfo.status = "Stopping"

\* createViewRemoteVideo after the await resolved with a view.
CreateViewRemoteVideoResolved(w, k, r) ==
  LET refreshedRenderInfo == GetRenderInfo(w, k)
  IN IF refreshedRenderInfo.status = "Absent"
       THEN Empty(SetRendererView(DisposeRenderer(w, r), k, NoView))
     ELSE IF StopRequested(refreshedRenderInfo)
       THEN Empty(SetRendererView(
              SetRenderInfo(DisposeRenderer(w, r), k, refreshedRenderInfo.stream,
                            "NotRendered", NoRenderer),
              k, NoView))
     ELSE [w |-> SetRendererView(
                   SetRenderInfo(w, k, refreshedRenderInfo.stream, "Rendered", r), k, r),
           result |-> "view"]

\* createViewLocalVideo after the await resolved with a view.
CreateViewLocalVideoResolved(w, k, r) ==
  LET refreshedRenderInfo == GetRenderInfo(w, k)
  IN IF refreshedRenderInfo.status = "Absent"
       THEN Empty(SetRendererView(DisposeRenderer(w, r), k, NoView))
     ELSE IF StopRequested(refreshedRenderInfo)
       THEN Empty(SetRendererView(
              SetRenderInfo(DisposeRenderer(w, r), k, refreshedRenderInfo.stream,
                            "NotRendered", NoRenderer),
              k, NoView))
     ELSE [w |-> SetRendererView(
                   SetRenderInfo(w, k, refreshedRenderInfo.stream, "Rendered", r), k, r),
           result |-> "view"]

\* createViewUnparentedVideo after the await resolved with a view.  The
\* Stopping branch deletes the entry and the view and disposes nothing.
CreateViewUnparentedVideoResolved(w, k, r) ==
  LET refreshedRenderInfo == GetRenderInfo(w, k)
  IN IF refreshedRenderInfo.status = "Absent"
       THEN Empty(SetRendererView(DisposeRenderer(w, r), k, NoView))
     ELSE IF StopRequested(refreshedRenderInfo)
       THEN Empty(SetRendererView(DeleteRenderInfo(w, k), k, NoView))
     ELSE [w |-> SetRendererView(
                   SetRenderInfo(w, k, w.task[r].stream, "Rendered", r), k, r),
           result |-> "view"]

\* The catch blocks: `await renderer.createView(options)` threw.
CreateViewRemoteVideoRejected(w, k, r) ==
  SetRenderInfo(w, k, w.task[r].stream, "NotRendered", NoRenderer)

CreateViewLocalVideoRejected(w, k, r) ==
  SetRenderInfo(w, k, w.task[r].stream, "NotRendered", NoRenderer)

CreateViewUnparentedVideoRejected(w, k, r) == DeleteRenderInfo(w, k)

(* --------------------------- dispose-view ------------------------------ *)

\* Mutant: dispose-view takes every entry for one being rendered.
StillRenderingAlways(renderInfo) == TRUE

\* `if (renderInfo.status === 'Rendering')` of the dispose functions.
StillRendering(renderInfo) == renderInfo.status = "Rendering"

\* Mutant: dispose-view forgets the renderer the entry held.
DisposeHeldRendererSkipped(w, renderInfo) == w

\* `if (renderInfo.renderer) renderInfo.renderer.dispose();`
DisposeHeldRenderer(w, renderInfo) ==
  IF renderInfo.renderer # NoRenderer THEN DisposeRenderer(w, renderInfo.renderer) ELSE w

\* Mutant: dispose-view does not clear the published view.
ClearViewSkipped(w, k) == w

\* `context.set*VideoStreamRendererView(..., undefined)` /
\* `context.deleteDeviceManagerUnparentedView(stream)`: the first statement of
\* the dispose functions.
ClearView(w, k) == SetRendererView(w, k, NoView)

\* Mutant: the missing-entry check of dispose-view is gone.
NoRenderInfoUnchecked(renderInfo) == FALSE

\* `if (!renderInfo) return;` of the dispose functions.
NoRenderInfo(renderInfo) == renderInfo.status = "Absent"

DisposeViewRemoteVideo(w, k) ==
  LET w1 == ClearView(w, k)
      renderInfo == GetRenderInfo(w1, k)
  IN IF NoRenderInfo(renderInfo) THEN w1
     ELSE LET w2 == IF StillRendering(renderInfo)
                      THEN SetRenderInfo(w1, k, renderInfo.stream, "Stopping", NoRenderer)
                      ELSE SetRenderInfo(w1, k, renderInfo.stream, "NotRendered", NoRenderer)
          IN DisposeHeldRenderer(w2, renderInfo)

DisposeViewLocalVideo(w, k) ==
  LET w1 == ClearView(w, k)
      renderInfo == GetRenderInfo(w1, k)
  IN IF NoRenderInfo(renderInfo) THEN w1
     ELSE LET w2 == IF StillRendering(renderInfo)
                      THEN SetRenderInfo(w1, k, renderInfo.stream, "Stopping", NoRenderer)
                      ELSE SetRenderInfo(w1, k, renderInfo.stream, "NotRendered", NoRenderer)
          IN DisposeHeldRenderer(w2, renderInfo)

DisposeViewUnparentedVideo(w, k) ==
  LET w1 == ClearView(w, k)
      renderInfo == GetRenderInfo(w1, k)
  IN IF NoRenderInfo(renderInfo) THEN w1
     ELSE LET w2 == IF StillRendering(renderInfo)
                      THEN SetRenderInfo(w1, k, renderInfo.stream, "Stopping", NoRenderer)
                      ELSE DeleteRenderInfo(w1, k)
          IN DisposeHeldRenderer(w2, renderInfo)

(* ----------------------------- dispatch -------------------------------- *)

\* Mutant: a request with a participant identifier is never taken for a
\* local stream.
ClassifyStrict(callId, participantId, stream) ==
  IF HasId(stream) /\ callId # Undefined /\ participantId # Undefined THEN "remote"
  ELSE IF ~HasId(stream) /\ callId # Undefined /\ participantId = Undefined THEN "local"
  ELSE IF ~HasId(stream) /\ callId = Undefined /\ participantId = Undefined THEN "unparented"
  ELSE "invalid"

\* The if/else-if chain of createView.
Classify(callId, participantId, stream) ==
  IF HasId(stream) /\ callId # Undefined /\ participantId # Undefined THEN "remote"
  ELSE IF ~HasId(stream) /\ callId # Undefined THEN "local"
  ELSE IF ~HasId(stream) /\ callId = Undefined THEN "unparented"
  ELSE "invalid"

\* The registry key a classified request addresses.
KeyOf(callId, participantId, stream) ==
  LET cls == Classify(callId, participantId, stream)
  IN CASE cls = "remote" -> RemoteKey(callId, participantId, stream.id)
       [] cls = "local" -> LocalKey(callId)
       [] cls = "unparented" -> UnparentedKey(stream.obj)
       [] OTHER -> InvalidKey

\* The if/else-if chain of disposeView.
ClassifyDispose(callId, participantId, stream) ==
  IF HasId(stream) /\ callId # Undefined /\ participantId # Undefined THEN "remote"
  ELSE IF ~HasId(stream) /\ callId # Undefined THEN "local"
  ELSE IF ~HasId(stream) /\ callId = Undefined THEN "unparented"
  ELSE "invalid"

\* The registry key a classified dispose request addresses.
DisposeKeyOf(callId, participantId, stream) ==
  LET cls == ClassifyDispose(callId, participantId, stream)
  IN CASE cls = "remote" -> RemoteKey(callId, participantId, stream.id)
       [] cls = "local" -> LocalKey(callId)
       [] cls = "unparented" -> UnparentedKey(stream.obj)
       [] OTHER -> InvalidKey

\* disposeView
DisposeViewIn(w, callId, participantId, stream) ==
  LET cls == ClassifyDispose(callId, participantId, stream)
      k == DisposeKeyOf(callId, participantId, stream)
  IN CASE cls = "remote" -> DisposeViewRemoteVideo(Note(w, k, "cancelled"), k)
       [] cls = "local" -> DisposeViewLocalVideo(Note(w, k, "cancelled"), k)
       [] cls = "unparented" -> DisposeViewUnparentedVideo(Note(w, k, "cancelled"), k)
       [] OTHER -> w

(* --------------------------- bulk disposal ----------------------------- *)

\* Converter.ts: the declarative stream rebuilt from the SDK stream that the
\* registry recorded.
convertSdkRemoteStreamToDeclarativeRemoteStream(stream) == [id |-> stream.id, obj |-> "remote"]
convertSdkLocalStreamToDeclarativeLocalStream(stream) == [id |-> NoId, obj |-> "local"]

\* internalContext.getRemoteRenderInfoForCall: the remote entries of a call.
GetRemoteRenderInfoForCall(w, callId) ==
  {k \in RemoteKeys : k.call = callId /\ w.registry[k].status # "Absent"}

\* Mutant: the loops run over the rendered remote entries of every call.
RECURSIVE DisposeRemoteViewsOfEveryCall(_, _, _)
DisposeRemoteViewsOfEveryCall(w, callId, ks) ==
  LET rendered == {k \in RemoteKeys : w.registry[k].status = "Rendered"}
  IN IF rendered = {} THEN w
     ELSE LET k == CHOOSE x \in rendered : TRUE
          IN DisposeRemoteViewsOfEveryCall(
               DisposeViewIn(w, k.call, k.part,
                 convertSdkRemoteStreamToDeclarativeRemoteStream(w.registry[k].stream)),
               callId, ks)

\* The nested for-loops of disposeAllViewsFromCall over the remote entries.
RECURSIVE DisposeRemoteViews(_, _, _)
DisposeRemoteViews(w, callId, ks) ==
  IF ks = {} THEN w
  ELSE LET k == CHOOSE x \in ks : TRUE
           w1 == DisposeViewIn(w, callId, k.part,
                   convertSdkRemoteStreamToDeclarativeRemoteStream(w.registry[k].stream))
       IN DisposeRemoteViews(w1, callId, ks \ {k})

\* `if (localStreamAndRenderer && localStreamAndRenderer.renderer)`
LocalViewToDispose(localStreamAndRenderer) ==
  localStreamAndRenderer.status # "Absent" /\ localStreamAndRenderer.renderer # NoRenderer

DisposeAllViewsFromCallIn(w, callId) ==
  LET w1 == DisposeRemoteViews(w, callId, GetRemoteRenderInfoForCall(w, callId))
      localStreamAndRenderer == GetRenderInfo(w1, LocalKey(callId))
  IN IF LocalViewToDispose(localStreamAndRenderer)
       THEN DisposeViewIn(w1, callId, Undefined,
              convertSdkLocalStreamToDeclarativeLocalStream(localStreamAndRenderer.stream))
       ELSE w1

\* internalContext.getCallIds: the calls the registry tracks.
GetCallIds(w) == {c \in Calls : \E k \in CallKeys : k.call = c /\ w.registry[k].status # "Absent"}

RECURSIVE DisposeAllViewsIn(_, _)
DisposeAllViewsIn(w, callIds) ==
  IF callIds = {} THEN w
  ELSE LET c == CHOOSE x \in callIds : TRUE
       IN DisposeAllViewsIn(DisposeAllViewsFromCallIn(w, c), callIds \ {c})

(* ------------------------ stateful call client ------------------------- *)

\* StatefulCallClient.ts: the ProxyCallClient fields (_callAgent,
\* _deviceManager, _sdkDeviceManager), the asynchronous calls suspended on the
\* SDK, and the parts of the state store they reach: the latest-errors log
\* and the state-change subscribers.

\* Asynchronous client calls that may be in flight at once.
MaxClientCalls == 2
\* DeviceManager instances the SDK may hand out.
MaxSdkDeviceManagers == 2
\* Declarative wrappers / call agents that may be built in a run.
MaxWrappers == 2
\* Length of the subscriber list.
MaxSubscriptions == 3

Slots == 1..MaxClientCalls
SdkDeviceManagers == 1..MaxSdkDeviceManagers
Handlers == {"h1", "h2"}

\* `undefined` in _sdkDeviceManager, _deviceManager, _callAgent.
NoObject == 0

\* The names the two intercepted calls are teed under.
CreateCallAgentName == "CallClient.createCallAgent"
\* Mutant: getDeviceManager failures are logged under the other name.
GetDeviceManagerNameSwapped == "CallClient.createCallAgent"
GetDeviceManagerName == "CallClient.getDeviceManager"
OpNames == {"CallClient.createCallAgent", "CallClient.getDeviceManager"}

IdleCall == [op |-> "none", state |-> "idle"]
NoReturn == [op |-> "none", slot |-> 0, outcome |-> "none", via |-> "none",
             value |-> NoObject, sdk |-> NoObject, overlap |-> FALSE]

\* The onStateChange / offStateChange calls the application made for a
\* handler: "never" registered, registered "once", registered once and then
\* "removed", or "multi" (registered again while registered).
AfterOn(hist) == IF hist \in {"never", "removed"} THEN "once" ELSE "multi"
AfterOff(hist) == IF hist = "once" THEN "removed" ELSE hist

\* new CallContext(...) with its duplicate-registration policy, new
\* ProxyCallClient(context, internalContext).
NewClient(policy) ==
  [sdkDeviceManager |-> NoObject,
   deviceManager |-> NoObject,
   built |-> 0,
   callAgent |-> NoObject,
   callAgentState |-> NoObject,
   agents |-> 0,
   latestErrors |-> [n \in OpNames |-> "none"],
   calls |-> [s \in Slots |-> IdleCall],
   subscribers |-> << >>,
   policy |-> policy,
   hist |-> [h \in Handlers |-> "never"],
   notified |-> [h \in Handlers |-> 0],
   mutation |-> "none",
   ret |-> NoReturn]

\* Number of times handler h occurs in the subscriber list.
Registrations(c, h) == Cardinality({i \in 1..Len(c.subscribers) : c.subscribers[i] = h})

\* context.modifyState: the mutator has run to completion; every subscriber
\* is then called once per registration.  A mutator that changed nothing
\* notifies no one.
ModifyStateIn(c, changed) ==
  [c EXCEPT !.notified = [h \in Handlers |-> IF changed THEN Registrations(c, h) ELSE 0],
            !.mutation = IF changed THEN "changed" ELSE "untouched"]

\* context.onStateChange: "adding the same handler twice must be tolerated
\* (behaves as either a no-op or results in two notifications)".
ContextOnStateChange(c, handler) ==
  IF c.policy = "noop" /\ Registrations(c, handler) > 0
    THEN c
    ELSE [c EXCEPT !.subscribers = Append(@, handler)]

\* The list without its last occurrence of handler.
RemoveLast(subs, handler) ==
  LET places == {i \in 1..Len(subs) : subs[i] = handler}
  IN IF places = {} THEN subs
     ELSE LET last == CHOOSE i \in places : \A j \in places : j <= i
          IN SubSeq(subs, 1, last - 1) \o SubSeq(subs, last + 1, Len(subs))

\* context.offStateChange: removes exactly the matching handler reference;
\* removing an unregistered handler is a no-op.
ContextOffStateChange(c, handler) == [c EXCEPT !.subscribers = RemoveLast(@, handler)]

\* context.withAsyncErrorTeedToState, failure path: the error is recorded
\* under the operation's name (one entry per name, last write wins) through a
\* state mutation, then rethrown.
TeeErrorToState(c, name, error) ==
  ModifyStateIn([c EXCEPT !.latestErrors[name] = error], TRUE)

\* context.setCallAgent
SetCallAgent(c, agent) == ModifyStateIn([c EXCEPT !.callAgentState = agent], TRUE)

\* The asynchronous call in slot s is over: what the caller gets (a value or
\* an error), by which path, and whether another call of the same operation
\* was suspended meanwhile.
Return(c, s, outcome, via, value, sdk) ==
  [c EXCEPT !.calls[s] = IdleCall,
            !.ret = [op |-> c.calls[s].op, slot |-> s, outcome |-> outcome, via |-> via,
                     value |-> value, sdk |-> sdk,
                     overlap |-> \E t \in Slots \ {s} : c.calls[t] = c.calls[s]]]

\* Mutant: the recorded SDK instance is not looked at.
DeviceManagerRecordedUnchecked(c) == FALSE

\* `if (this._sdkDeviceManager)`
DeviceManagerRecorded(c) == c.sdkDeviceManager # NoObject

\* Mutant: any SDK instance is taken for the recorded one.
SameDeviceManagerUnchecked(c, deviceManager) == TRUE

\* `this._sdkDeviceManager === deviceManager`
SameDeviceManager(c, deviceManager) == c.sdkDeviceManager = deviceManager

\* deviceManagerDeclaratify(deviceManager, context): a new wrapper.
DeviceManagerDeclaratify(c) ==
  [c EXCEPT !.built = @ + 1, !.deviceManager = c.built + 1]

\* The body of the 'getDeviceManager' case after `await
\* target.getDeviceManager()` returned deviceManager.
GetDeviceManagerResolved(c, s, deviceManager) ==
  IF DeviceManagerRecorded(c)
    THEN IF SameDeviceManager(c, deviceManager)
           THEN Return(c, s, "value", "cached", c.deviceManager, deviceManager)
           ELSE Return(TeeErrorToState(c, GetDeviceManagerName, "multiple"),
                       s, "error", "thrown", NoObject, deviceManager)
    ELSE LET c1 == DeviceManagerDeclaratify([c EXCEPT !.sdkDeviceManager = deviceManager])
         IN Return(c1, s, "value", "built", c1.deviceManager, deviceManager)

\* `await target.getDeviceManager()` threw.
GetDeviceManagerRejected(c, s) ==
  Return(TeeErrorToState(c, GetDeviceManagerName, "sdk"),
         s, "error", "rejected", NoObject, NoObject)

\* The body of the 'createCallAgent' case after `await
\* target.createCallAgent(...args)` returned a call agent.
CreateCallAgentResolved(c, s) ==
  LET agent == c.agents + 1
      c1 == SetCallAgent([c EXCEPT !.agents = agent, !.callAgent = agent], agent)
  IN Return(c1, s, "value", "built", agent, NoObject)

\* `await target.createCallAgent(...args)` threw.
CreateCallAgentRejected(c, s) ==
  Return(TeeErrorToState(c, CreateCallAgentName, "sdk"),
         s, "error", "rejected", NoObject, NoObject)

(* ------------------------------ actions -------------------------------- *)

\* StatefulCallClient.createView(callId, participantId, stream): runs to the
\* await, or returns at once.
CreateView(req) ==
  LET cls == Classify(req.callId, req.participantId, req.stream)
      k == KeyOf(req.callId, req.participantId, req.stream)
      r == nextRenderer + 1
  IN IF cls = "invalid"
       THEN /\ lastCall' = Call("createView", InvalidKey, "invalid", NoRenderer)
            /\ UNCHANGED <<registry, views, inSnapshot, disposeCount, task, nextRenderer>>
       ELSE /\ LET out == CASE cls = "remote" -> CreateViewRemoteVideoBegin(World, k, r)
                            [] cls = "local" -> CreateViewLocalVideoBegin(World, k, r)
                            [] OTHER -> CreateViewUnparentedVideoBegin(World, k, r)
               IN /\ out.result = "started" => nextRenderer < MaxRenderers
                  /\ Commit(out.w)
                  /\ nextRenderer' = IF out.result = "started" THEN r ELSE nextRenderer
                  /\ lastCall' = Call("createView", k, out.result,
                                      IF out.result = "started" THEN r ELSE NoRenderer)
            /\ UNCHANGED inSnapshot

\* `await renderer.createView(options)` of renderer r's call resolves.
CreateViewResolves(r) ==
  /\ task[r].state = "suspended"
  /\ LET k == task[r].key
         out == CASE k.cls = "remote" -> CreateViewRemoteVideoResolved(World, k, r)
                  [] k.cls = "local" -> CreateViewLocalVideoResolved(World, k, r)
                  [] OTHER -> CreateViewUnparentedVideoResolved(World, k, r)
     IN /\ Commit(Finish(out.w, r, "created"))
        /\ lastCall' = [Call("resolved", k, out.result, r) EXCEPT
                          !.seen = task[r].seen]
  /\ UNCHANGED <<inSnapshot, nextRenderer>>

\* `await renderer.createView(options)` of renderer r's call throws.
CreateViewRejects(r) ==
  /\ task[r].state = "suspended"
  /\ LET k == task[r].key
         w == CASE k.cls = "remote" -> CreateViewRemoteVideoRejected(World, k, r)
                [] k.cls = "local" -> CreateViewLocalVideoRejected(World, k, r)
                [] OTHER -> CreateViewUnparentedVideoRejected(World, k, r)
     IN /\ Commit(Finish(w, r, "failed"))
        /\ lastCall' = [Call("rejected", k, "failed", r) EXCEPT
                          !.seen = task[r].seen]
  /\ UNCHANGED <<inSnapshot, nextRenderer>>

\* StatefulCallClient.disposeView(callId, participantId, stream)
DisposeView(req) ==
  /\ Commit(DisposeViewIn(World, req.callId, req.participantId, req.stream))
  /\ lastCall' = Call("disposeView", DisposeKeyOf(req.callId, req.participantId, req.stream),
                      "void", NoRenderer)
  /\ UNCHANGED <<inSnapshot, nextRenderer>>

DisposeAllViewsFromCall(callId) ==
  /\ Commit(DisposeAllViewsFromCallIn(World, callId))
  /\ lastCall' = Call("disposeAllViewsFromCall", LocalKey(callId), "void", NoRenderer)
  /\ UNCHANGED <<inSnapshot, nextRenderer>>

DisposeAllViews ==
  /\ Commit(DisposeAllViewsIn(World, GetCallIds(World)))
  /\ lastCall' = Call("disposeAllViews", InvalidKey, "void", NoRenderer)
  /\ UNCHANGED <<inSnapshot, nextRenderer>>

\* The SDK reports a stream of a call: the subscribers record it in the
\* snapshot and in the registry, not rendered.
StreamAdded(k) ==
  /\ registry[k].status = "Absent"
  /\ ~inSnapshot[k]
  /\ registry' = [registry EXCEPT ![k] =
       [stream |-> IF k.cls = "remote" THEN SdkRemoteStream(k.id) ELSE SdkLocalStream,
        status |-> "NotRendered", renderer |-> NoRenderer]]
  /\ inSnapshot' = [inSnapshot EXCEPT ![k] = TRUE]
  /\ lastCall' = Call("env", InvalidKey, "void", NoRenderer)
  /\ UNCHANGED <<views, disposeCount, task, nextRenderer>>

\* The SDK reports a stream again that was removed while a create-view for it
\* is suspended: the subscribers record the new SDK stream object.
StreamAddedAgain(k) ==
  /\ registry[k].status = "Absent"
  /\ ~inSnapshot[k]
  /\ \E r \in Renderers : task[r].state = "suspended" /\ task[r].key = k
  /\ registry' = [registry EXCEPT ![k] =
       [stream |-> [id |-> IF k.cls = "remote" THEN k.id ELSE NoId, ver |-> 2],
        status |-> "NotRendered", renderer |-> NoRenderer]]
  /\ inSnapshot' = [inSnapshot EXCEPT ![k] = TRUE]
  /\ lastCall' = Call("env", InvalidKey, "void", NoRenderer)
  /\ UNCHANGED <<views, disposeCount, task, nextRenderer>>

\* The SDK reports the stream (or its participant, or its call) gone: the
\* subscribers dispose its view, then drop it from the registry and the
\* snapshot.
StreamRemoved(k) ==
  /\ inSnapshot[k]
  /\ LET w1 == IF k.cls = "remote" THEN DisposeViewRemoteVideo(World, k)
                                    ELSE DisposeViewLocalVideo(World, k)
         w2 == Note(DeleteRenderInfo(w1, k), k, "removed")
     IN Commit([w2 EXCEPT !.views[k] = NoView])
  /\ inSnapshot' = [inSnapshot EXCEPT ![k] = FALSE]
  /\ lastCall' = Call("env", InvalidKey, "void", NoRenderer)
  /\ UNCHANGED nextRenderer

\* The client's asynchronous calls: `client.getDeviceManager()` starts and
\* suspends at `await target.getDeviceManager()`.
GetDeviceManager(s) ==
  /\ client.calls[s].state = "idle"
  /\ client' = [client EXCEPT !.calls[s] = [op |-> "getDeviceManager", state |-> "suspended"]]
  /\ UNCHANGED <<viewVars, request, uiVars>>

\* The SDK returns the DeviceManager instance deviceManager.
GetDeviceManagerResolves(s, deviceManager) ==
  /\ client.calls[s] = [op |-> "getDeviceManager", state |-> "suspended"]
  /\ ~DeviceManagerRecorded(client) => client.built < MaxWrappers
  /\ client' = GetDeviceManagerResolved(client, s, deviceManager)
  /\ UNCHANGED <<viewVars, request, uiVars>>

\* The SDK's getDeviceManager fails.
GetDeviceManagerRejects(s) ==
  /\ client.calls[s] = [op |-> "getDeviceManager", state |-> "suspended"]
  /\ client' = GetDeviceManagerRejected(client, s)
  /\ UNCHANGED <<viewVars, request, uiVars>>

\* `client.createCallAgent(...)` starts and suspends at
\* `await target.createCallAgent(...args)`.
CreateCallAgent(s) ==
  /\ client.calls[s].state = "idle"
  /\ client' = [client EXCEPT !.calls[s] = [op |-> "createCallAgent", state |-> "suspended"]]
  /\ UNCHANGED <<viewVars, request, uiVars>>

CreateCallAgentResolves(s) ==
  /\ client.calls[s] = [op |-> "createCallAgent", state |-> "suspended"]
  /\ client.agents < MaxWrappers
  /\ client' = CreateCallAgentResolved(client, s)
  /\ UNCHANGED <<viewVars, request, uiVars>>

CreateCallAgentRejects(s) ==
  /\ client.calls[s] = [op |-> "createCallAgent", state |-> "suspended"]
  /\ client' = CreateCallAgentRejected(client, s)
  /\ UNCHANGED <<viewVars, request, uiVars>>

\* Mutant: offStateChange is not passed on to the context.
OffStateChangeNotDelegated(handler) ==
  /\ client' = [client EXCEPT !.hist[handler] = AfterOff(@), !.mutation = "none"]
  /\ UNCHANGED <<viewVars, request, uiVars>>

\* callClient.onStateChange(handler)
OnStateChange(handler) ==
  /\ Len(client.subscribers) < MaxSubscriptions
  /\ client' = [ContextOnStateChange(client, handler) EXCEPT
                  !.hist[handler] = AfterOn(@), !.mutation = "none"]
  /\ UNCHANGED <<viewVars, request, uiVars>>

\* callClient.offStateChange(handler)
OffStateChange(handler) ==
  /\ client' = [ContextOffStateChange(client, handler) EXCEPT
                  !.hist[handler] = AfterOff(@), !.mutation = "none"]
  /\ UNCHANGED <<viewVars, request, uiVars>>

\* A state mutation made through the store: a view setter of create-view or
\* dispose-view, or any other modifyState call.  `changed` is FALSE for a
\* mutator that touches nothing (a setter whose target is gone).
ModifyState(changed) ==
  /\ client' = ModifyStateIn(client, changed)
  /\ UNCHANGED <<viewVars, request, uiVars>>

\* createView / disposeView as the application calls them on the client,
\* with the arguments kept.
CreateViewRequest(req) ==
  /\ CreateView(req)
  /\ request' = [op |-> "createView", callId |-> req.callId,
                 participantId |-> req.participantId, stream |-> req.stream]
  /\ UNCHANGED <<client, uiVars>>

DisposeViewRequest(req) ==
  /\ DisposeView(req)
  /\ request' = [op |-> "disposeView", callId |-> req.callId,
                 participantId |-> req.participantId, stream |-> req.stream]
  /\ UNCHANGED <<client, uiVars>>

(* --------------------------- chat edit box ----------------------------- *)

\* ChatMessageComponentAsEditBox.  A text is its leading whitespace, its
\* trimmed content (which starts and ends with a non-whitespace character)
\* and its trailing whitespace, each by length; a blank text is all leading
\* whitespace.
MAXIMUM_LENGTH_OF_MESSAGE == 8000

LeadLengths == {0, 1, MAXIMUM_LENGTH_OF_MESSAGE + 1}
CoreLengths == {0, 1, MAXIMUM_LENGTH_OF_MESSAGE - 2, MAXIMUM_LENGTH_OF_MESSAGE - 1,
                MAXIMUM_LENGTH_OF_MESSAGE, MAXIMUM_LENGTH_OF_MESSAGE + 1}
TrailLengths == {0, 1}
Texts == {t \in [lead : LeadLengths, core : CoreLengths, trail : TrailLengths] :
            t.core = 0 => t.trail = 0}
EmptyText == [lead |-> 0, core |-> 0, trail |-> 0]
\* `undefined` where a text is expected.
NoText == [lead |-> 0 - 1, core |-> 0, trail |-> 0]

\* messageText.length
Length(messageText) == messageText.lead + messageText.core + messageText.trail

\* messageText.trim()
Trim(messageText) == [lead |-> 0, core |-> messageText.core, trail |-> 0]

\* Mutant: the limit is taken one character too high.
isMessageTooLongOffByOne(messageText) == Length(messageText) > MAXIMUM_LENGTH_OF_MESSAGE + 1

isMessageTooLong(messageText) == Length(messageText) > MAXIMUM_LENGTH_OF_MESSAGE

isMessageEmpty(messageText) == Length(Trim(messageText)) = 0

getMessageState(messageText) ==
  IF isMessageEmpty(messageText) THEN "too short"
  ELSE IF isMessageTooLong(messageText) THEN "too long"
  ELSE "OK"

\* `const submitEnabled = messageState === 'OK'` of the render that the
\* event handlers close over.
submitEnabled(box) == getMessageState(box.textValue) = "OK"

NoEditBox == [textValue |-> NoText, event |-> "none", submitted |-> NoText]

\* useState(initialValue): the component is mounted.
EditBoxMounted(initialValue) ==
  [textValue |-> initialValue, event |-> "mount", submitted |-> NoText]

\* onChange={setText}: setTextValue(newValue ?? '')
setText(newValue) ==
  /\ editBox' = [textValue |-> IF newValue = NoText THEN EmptyText ELSE newValue,
                 event |-> "change", submitted |-> NoText]
  /\ UNCHANGED <<viewVars, request, client, gridLayout>>

\* onEnterKeyDown: submitEnabled && onSubmit(textValue)
onEnterKeyDown ==
  /\ editBox' = [editBox EXCEPT !.event = "enter",
                                !.submitted = IF submitEnabled(editBox) THEN editBox.textValue
                                                                        ELSE NoText]
  /\ UNCHANGED <<viewVars, request, client, gridLayout>>

\* onClick of the submit button: submitEnabled && onSubmit(textValue)
onSubmitClick ==
  /\ editBox' = [editBox EXCEPT !.event = "click",
                                !.submitted = IF submitEnabled(editBox) THEN editBox.textValue
                                                                        ELSE NoText]
  /\ UNCHANGED <<viewVars, request, client, gridLayout>>

\* onClick of the cancel button: onCancel && onCancel()
onCancelClick ==
  /\ editBox' = [editBox EXCEPT !.event = "cancel", !.submitted = NoText]
  /\ UNCHANGED <<viewVars, request, client, gridLayout>>

(* ----------------------------- grid layout ----------------------------- *)

MaxChildren == 10

\* Math.ceil(a / b) and Math.floor(a / b) for non-negative a and positive b.
Ceil(a, b) == (a + b - 1) \div b
Floor(a, b) == a \div b

\* Math.ceil(Math.sqrt(n))
CeilSqrt(n) == CHOOSE i \in 0..n : i * i >= n /\ (i = 0 \/ (i - 1) * (i - 1) < n)

maxCellsPerBlock(n, k) == Ceil(n, k)
minCellsPerBlock(n, k) == Floor(n, k)

\* Mutant: the cells of the smaller blocks are counted with the larger size.
numBigCellsByMax(n, k) == (k - (n % k)) * maxCellsPerBlock(n, k)

numBigCells(n, k) == (k - (n % k)) * minCellsPerBlock(n, k)

units(n, k) == maxCellsPerBlock(n, k) * minCellsPerBlock(n, k)

\* The span of the i-th child (1..n): `> div` gives units / maxCellsPerBlock,
\* `> div:nth-last-child(-n + numBigCells)` overrides it with
\* units / minCellsPerBlock when the two sizes differ.
Span(n, k, i) ==
  IF maxCellsPerBlock(n, k) # minCellsPerBlock(n, k) /\ i > n - numBigCells(n, k)
    THEN units(n, k) \div minCellsPerBlock(n, k)
    ELSE units(n, k) \div maxCellsPerBlock(n, k)

\* gridAutoFlow with repeat(units, 1fr) tracks: the children are placed in
\* order, a child that does not fit the rest of the current block opens the
\* next one.  The result is the sequence of the blocks' filled units.
RECURSIVE AutoFlow(_, _, _, _)
AutoFlow(n, k, i, blocks) ==
  IF i > n THEN blocks
  ELSE LET span == Span(n, k, i)
           last == Len(blocks)
       IN IF last > 0 /\ blocks[last] + span <= units(n, k)
            THEN AutoFlow(n, k, i + 1, [blocks EXCEPT ![last] = @ + span])
            ELSE AutoFlow(n, k, i + 1, Append(blocks, span))

\* What one render of GridLayout hands to the style engine.
Render(numberOfChildren, blockProps) ==
  [numberOfChildren |-> numberOfChildren,
   blockProps |-> blockProps,
   units |-> units(numberOfChildren, blockProps.numBlocks),
   spans |-> [i \in 1..numberOfChildren |-> Span(numberOfChildren, blockProps.numBlocks, i)],
   blocks |-> AutoFlow(numberOfChildren, blockProps.numBlocks, 1, <<>>)]

NoGridLayout == [numberOfChildren |-> 0, blockProps |-> [horizontal |-> TRUE, numBlocks |-> 0],
                 units |-> 0, spans |-> <<>>, blocks |-> <<>>]

\* The first render: useState({horizontal: true, numBlocks: ceil(sqrt(n))}).
GridLayoutMounted(numberOfChildren) ==
  Render(numberOfChildren, [horizontal |-> TRUE, numBlocks |-> CeilSqrt(numberOfChildren)])

\* updateBlockProps: setBlockProps(calculateBlockProps(...)) and the render
\* that follows.
updateBlockProps(blockProps) ==
  /\ blockProps.numBlocks \in 1..gridLayout.numberOfChildren
  /\ gridLayout' = Render(gridLayout.numberOfChildren, blockProps)
  /\ UNCHANGED <<viewVars, request, client, editBox>>

Init ==
  /\ ViewInit
  /\ client = NewClient("twice")
  /\ editBox = NoEditBox
  /\ gridLayout = NoGridLayout

Next ==
  \/ \E req \in Requests : CreateView(req) /\ UNCHANGED <<request, client, uiVars>>
  \/ \E r \in Renderers : CreateViewResolves(r) /\ UNCHANGED <<request, client, uiVars>>
  \/ \E r \in Renderers : CreateViewRejects(r) /\ UNCHANGED <<request, client, uiVars>>
  \/ \E req \in Requests : DisposeView(req) /\ UNCHANGED <<request, client, uiVars>>
  \/ \E callId \in ActiveCalls : DisposeAllViewsFromCall(callId) /\ UNCHANGED <<request, client, uiVars>>
  \/ DisposeAllViews /\ UNCHANGED <<request, client, uiVars>>
  \/ \E k \in ActiveKeys : StreamAdded(k) /\ UNCHANGED <<request, client, uiVars>>
  \/ \E k \in ActiveKeys : StreamRemoved(k) /\ UNCHANGED <<request, client, uiVars>>

Spec == Init /\ [][Next]_vars

\* `await renderer.createView(options)` settles: the promise of renderer r
\* resolves or rejects.
Settles(r) ==
  (CreateViewResolves(r) \/ CreateViewRejects(r)) /\ UNCHANGED <<request, client, uiVars>>

\* Spec under the assumption that every renderer creation eventually succeeds
\* or fails.
LiveSpec == Spec /\ \A r \in Renderers : WF_vars(Settles(r))

\* Streams that leave a call and come back as new SDK objects while views are
\* created and disposed.
StreamNext ==
  \/ \E req \in Requests : CreateView(req) /\ UNCHANGED <<request, client, uiVars>>
  \/ \E r \in Renderers : CreateViewResolves(r) /\ UNCHANGED <<request, client, uiVars>>
  \/ \E r \in Renderers : CreateViewRejects(r) /\ UNCHANGED <<request, client, uiVars>>
  \/ \E req \in Requests : DisposeView(req) /\ UNCHANGED <<request, client, uiVars>>
  \/ \E k \in ActiveKeys : StreamAdded(k) /\ UNCHANGED <<request, client, uiVars>>
  \/ \E k \in ActiveKeys : StreamRemoved(k) /\ UNCHANGED <<request, client, uiVars>>
  \/ \E k \in ActiveKeys : StreamAddedAgain(k) /\ UNCHANGED <<request, client, uiVars>>

StreamSpec == Init /\ [][StreamNext]_vars

\* The dispatch of createView / disposeView requests.
DispatchNext ==
  \/ \E req \in Requests : CreateViewRequest(req)
  \/ \E req \in Requests : DisposeViewRequest(req)
  \/ \E k \in ActiveKeys : StreamAdded(k) /\ UNCHANGED <<request, client, uiVars>>

DispatchSpec == Init /\ [][DispatchNext]_vars

\* The intercepted asynchronous calls of the client.
ClientNext ==
  \/ \E s \in Slots : GetDeviceManager(s)
  \/ \E s \in Slots, dm \in SdkDeviceManagers : GetDeviceManagerResolves(s, dm)
  \/ \E s \in Slots : GetDeviceManagerRejects(s)
  \/ \E s \in Slots : CreateCallAgent(s)
  \/ \E s \in Slots : CreateCallAgentResolves(s)
  \/ \E s \in Slots : CreateCallAgentRejects(s)

ClientSpec == Init /\ [][ClientNext]_vars

\* Two calls in progress next to an unparented stream: what a bulk disposal of
\* one call leaves alone.
RequestsOfAnyCall == [callId : Calls \cup {Undefined},
                      participantId : Participants \cup {Undefined},
                      stream : StreamStates]

FrameNext ==
  \/ \E k \in CallKeys : StreamAdded(k) /\ UNCHANGED <<request, client, uiVars>>
  \/ \E req \in RequestsOfAnyCall : CreateView(req) /\ UNCHANGED <<request, client, uiVars>>
  \/ \E r \in Renderers : CreateViewResolves(r) /\ UNCHANGED <<request, client, uiVars>>
  \/ \E callId \in Calls : DisposeAllViewsFromCall(callId) /\ UNCHANGED <<request, client, uiVars>>
  \/ DisposeAllViews /\ UNCHANGED <<request, client, uiVars>>

FrameSpec == Init /\ [][FrameNext]_vars

\* The chat message edit box.
EditBoxInit ==
  /\ ViewInit
  /\ client = NewClient("twice")
  /\ gridLayout = NoGridLayout
  /\ \E initialValue \in Texts : editBox = EditBoxMounted(initialValue)

EditBoxNext ==
  \/ \E newValue \in Texts \cup {NoText} : setText(newValue)
  \/ onEnterKeyDown
  \/ onSubmitClick
  \/ onCancelClick

EditBoxSpec == EditBoxInit /\ [][EditBoxNext]_vars

\* The grid layout of 1..MaxChildren children.
GridInit ==
  /\ ViewInit
  /\ client = NewClient("twice")
  /\ editBox = NoEditBox
  /\ \E numberOfChildren \in 1..MaxChildren : gridLayout = GridLayoutMounted(numberOfChildren)

GridNext ==
  \E horizontal \in BOOLEAN, numBlocks \in 1..MaxChildren :
    updateBlockProps([horizontal |-> horizontal, numBlocks |-> numBlocks])

GridSpec == GridInit /\ [][GridNext]_vars

\* The state store's subscribers.
StoreInit ==
  /\ ViewInit
  /\ \E policy \in {"noop", "twice"} : client = NewClient(policy)
  /\ editBox = NoEditBox
  /\ gridLayout = NoGridLayout

StoreNext ==
  \/ \E h \in Handlers : OnStateChange(h)
  \/ \E h \in Handlers : OffStateChange(h)
  \/ \E changed \in BOOLEAN : ModifyState(changed)
  \/ \E s \in Slots : GetDeviceManager(s)
  \/ \E s \in Slots : GetDeviceManagerRejects(s)

StoreSpec == StoreInit /\ [][StoreNext]_vars

TypeOK ==
  /\ \A k \in Keys : registry[k].status \in {"Absent", "NotRendered", "Rendering", "Rendered", "Stopping"}
  /\ \A k \in Keys : registry[k].renderer \in Renderers \cup {NoRenderer}
  /\ \A k \in Keys : views[k] \in Renderers \cup {NoView}
  /\ nextRenderer \in 0..MaxRenderers

(* ------------------------------ claims --------------------------------- *)

KeysOfCall(callId) == {k \in CallKeys : k.call = callId}

\* C1: once dispose-view ran on the key of a suspended create-view (and the
\* stream was not removed, and no create-view started since), no view is
\* published for the key, and that create-view does not return a view.
C1_NoViewAfterDispose ==
  /\ \A r \in Renderers :
       (task[r].state = "suspended" /\ task[r].seen = "cancelled" /\ nextRenderer = r)
         => views[task[r].key] = NoView
  /\ (lastCall.op = "resolved" /\ lastCall.seen = "cancelled" /\ nextRenderer = lastCall.r)
       => (lastCall.result = "empty" /\ views[lastCall.key] = NoView)

\* C2: a create-view whose key saw a dispose-view while it was suspended and
\* whose renderer creation succeeded has disposed its renderer when it returns.
C2_CancelledRendererDisposed ==
  (lastCall.op = "resolved" /\ lastCall.seen = "cancelled")
    => disposeCount[lastCall.r] >= 1

\* C3: dispose() is called at most once on any renderer.
C3_DisposeAtMostOnce == \A r \in Renderers : disposeCount[r] <= 1

\* C4: a Rendered entry holds a renderer; a NotRendered, Rendering or
\* Stopping entry holds none.
C4_RendererIffRendered ==
  \A k \in Keys :
    /\ registry[k].status = "Rendered" => registry[k].renderer # NoRenderer
    /\ registry[k].status \in {"NotRendered", "Rendering", "Stopping"}
         => registry[k].renderer = NoRenderer

\* C5: a create-view on a key whose creation is in flight (status Rendering)
\* returns empty, constructs no renderer and changes neither the registry nor
\* the views; and a create-view whose key saw no dispose-view and no removal
\* while it was suspended commits, when its creation succeeds, status Rendered
\* with its own renderer and returns the view.
C5_DuplicateCreateIgnored ==
  [][/\ \A k \in Keys :
          (lastCall'.op = "createView" /\ lastCall'.key = k /\ registry[k].status = "Rendering")
            => /\ lastCall'.result = "empty"
               /\ nextRenderer' = nextRenderer
               /\ registry' = registry
               /\ views' = views
               /\ disposeCount' = disposeCount
     /\ \A r \in Renderers :
          (/\ task[r].state = "suspended"
           /\ task[r].seen \in {"none", "dup"}
           /\ lastCall'.op = "resolved"
           /\ lastCall'.r = r)
            => /\ lastCall'.result = "view"
               /\ registry'[task[r].key].status = "Rendered"
               /\ registry'[task[r].key].renderer = r
               /\ views'[task[r].key] \in {r, NoView}
    ]_vars

\* C5 witness: a create-view that saw a duplicate create-view (and nothing
\* else) on its key has resolved, and the key is Rendered with its renderer.
C5_Witness ==
  /\ lastCall.op = "resolved"
  /\ lastCall.seen = "dup"
  /\ lastCall.result = "view"
  /\ registry[lastCall.key].status = "Rendered"
  /\ registry[lastCall.key].renderer = lastCall.r
  /\ nextRenderer = 1

\* C6: per key, at most one renderer is constructed (in flight or created)
\* and not yet disposed.
C6_AtMostOneLiveRenderer ==
  \A k \in Keys :
    Cardinality({r \in Renderers :
                   /\ task[r].key = k
                   /\ task[r].state \in {"suspended", "created"}
                   /\ disposeCount[r] = 0}) <= 1

\* C7: when no create-view is suspended, every renderer whose creation
\* succeeded is held by a Rendered entry or has been disposed.
C7_NoRendererDropped ==
  (\A r \in Renderers : task[r].state # "suspended")
    => \A r \in Renderers :
         task[r].state = "created"
           => \/ disposeCount[r] >= 1
              \/ \E k \in Keys : registry[k].status = "Rendered" /\ registry[k].renderer = r

\* C8: when a create-view whose key saw a dispose-view while it was suspended
\* (no removal, no create-view started since) resolves, a call-scoped key is
\* NotRendered and an unparented key has no entry.
C8_CancelledEndsNotRendered ==
  (lastCall.op \in {"resolved", "rejected"} /\ lastCall.seen = "cancelled"
     /\ nextRenderer = lastCall.r)
    => IF lastCall.key.cls = "unparented"
         THEN registry[lastCall.key].status = "Absent"
         ELSE registry[lastCall.key].status = "NotRendered"

\* C9: a create-view on a key with status Rendered returns empty, constructs
\* no renderer, and leaves the registry, the views and the renderers
\* unchanged.
C9_CreateOnRenderedIsNoOp ==
  [][\A k \in Keys :
       (lastCall'.op = "createView" /\ lastCall'.key = k /\ registry[k].status = "Rendered")
         => /\ lastCall'.result = "empty"
            /\ nextRenderer' = nextRenderer
            /\ registry' = registry
            /\ views' = views
            /\ disposeCount' = disposeCount
            /\ task' = task
    ]_vars

\* C9 witness: create-view was called on a Rendered key with a published
\* view and returned empty.
C9_Witness ==
  /\ lastCall.op = "createView"
  /\ lastCall.result = "empty"
  /\ lastCall.key \in Keys
  /\ registry[lastCall.key].status = "Rendered"
  /\ views[lastCall.key] = registry[lastCall.key].renderer

C11_FailedUnparentedLeavesNothing ==
  (lastCall.op = "rejected" /\ lastCall.key.cls = "unparented")
    => /\ lastCall.result = "failed"
       /\ registry[lastCall.key].status = "Absent"
       /\ views[lastCall.key] = NoView

\* C12 as stated: when the renderer creation of a call-scoped create-view
\* fails, the key is NotRendered without a renderer and no view is published
\* for it.
C12_FailedCallScopedRevertsToNotRendered ==
  (lastCall.op = "rejected" /\ lastCall.key.cls \in {"remote", "local"})
    => /\ lastCall.result = "failed"
       /\ registry[lastCall.key].status = "NotRendered"
       /\ registry[lastCall.key].renderer = NoRenderer
       /\ views[lastCall.key] = NoView

\* C13: a dispose-view on a key that has no registry entry returns normally,
\* disposes no renderer, constructs none and leaves the registry unchanged.
C13_DisposeOnAbsentIsNoOp ==
  [][\A k \in Keys :
       (lastCall'.op = "disposeView" /\ lastCall'.key = k /\ registry[k].status = "Absent")
         => /\ lastCall'.result = "void"
            /\ registry' = registry
            /\ disposeCount' = disposeCount
            /\ nextRenderer' = nextRenderer
    ]_vars

\* C13 witness: dispose-view ran on a call-scoped key without an entry while
\* another key is rendered.
C13_Witness ==
  /\ lastCall.op = "disposeView"
  /\ lastCall.key.cls = "remote"
  /\ registry[lastCall.key].status = "Absent"
  /\ \E k \in Keys : registry[k].status = "Rendered"

C15_InvalidRequestTouchesNothing ==
  [][(/\ request'.op \in {"createView", "disposeView"}
      /\ lastCall'.op = request'.op
      /\ \/ lastCall'.key.cls = "invalid"
         \/ (request'.participantId # Undefined /\ request'.callId = Undefined))
       => /\ registry' = registry
          /\ views' = views
          /\ disposeCount' = disposeCount
          /\ nextRenderer' = nextRenderer
          /\ task' = task
    ]_vars

\* C16: when dispose-view has returned, no view is published for its key,
\* whatever the registry status of the key was (no entry included).
C16_DisposeClearsView ==
  [][\A k \in Keys :
       (lastCall'.op = "disposeView" /\ lastCall'.key = k)
         => views'[k] = NoView
    ]_vars

\* C16 witness: dispose-view ran on a rendered key: its renderer is disposed
\* and its view is gone.
C16_Witness ==
  /\ lastCall.op = "disposeView"
  /\ lastCall.key \in CallKeys
  /\ registry[lastCall.key].status = "NotRendered"
  /\ views[lastCall.key] = NoView
  /\ \E r \in Renderers : task[r].state = "done" /\ disposeCount[r] = 1

\* C17: the declarative device-manager wrapper is built at most once, and
\* every getDeviceManager call that succeeds returns that one wrapper.
C17_DeviceManagerSingleton ==
  /\ client.built <= 1
  /\ (client.ret.op = "getDeviceManager" /\ client.ret.outcome = "value")
       => /\ client.ret.value = 1
          /\ client.ret.value = client.deviceManager

\* C17 witness: a getDeviceManager call that resumed while another one was
\* suspended got the wrapper the first one built.
C17_Witness ==
  /\ client.ret.op = "getDeviceManager"
  /\ client.ret.outcome = "value"
  /\ client.ret.via = "cached"
  /\ client.ret.overlap
  /\ client.built = 1

\* C18: a getDeviceManager call to which the SDK returns an instance other
\* than the recorded one fails and leaves the recorded instance and the
\* cached wrapper unchanged; one to which the SDK returns the recorded
\* instance returns the cached wrapper.
C18_SecondInstanceIsAnError ==
  [][\A s \in Slots :
       (/\ client.calls[s] = [op |-> "getDeviceManager", state |-> "suspended"]
        /\ client'.calls[s] = IdleCall
        /\ client.sdkDeviceManager # NoObject
        /\ client'.ret.sdk # NoObject)
         => /\ client'.sdkDeviceManager = client.sdkDeviceManager
            /\ client'.deviceManager = client.deviceManager
            /\ client'.built = client.built
            /\ IF client'.ret.sdk = client.sdkDeviceManager
                 THEN client'.ret.outcome = "value" /\ client'.ret.value = client.deviceManager
                 ELSE client'.ret.outcome = "error" /\ client'.ret.value = NoObject
    ]_vars

\* C18 witness: after a call failed on a second instance, a call to which
\* the SDK returned the recorded instance got the cached wrapper.
C18_Witness ==
  /\ client.ret.op = "getDeviceManager"
  /\ client.ret.via = "cached"
  /\ client.ret.value = client.deviceManager
  /\ client.latestErrors["CallClient.getDeviceManager"] = "multiple"

\* C19: an intercepted call that fails is rejected to its caller and its
\* error is in the error log under the operation's name; the entry of the
\* other operation is unchanged, and a failed createCallAgent leaves the
\* cached call agent and the call-agent state unchanged.
C19_FailureTeedAndRejected ==
  [][\A s \in Slots :
       (/\ client.calls[s].state = "suspended"
        /\ client'.calls[s] = IdleCall
        /\ client'.ret.via \in {"thrown", "rejected"})
         => /\ client'.ret.outcome = "error"
            /\ client'.ret.slot = s
            /\ IF client.calls[s].op = "getDeviceManager"
                 THEN /\ client'.latestErrors["CallClient.getDeviceManager"] =
                           (IF client'.ret.via = "thrown" THEN "multiple" ELSE "sdk")
                      /\ client'.latestErrors["CallClient.createCallAgent"] =
                           client.latestErrors["CallClient.createCallAgent"]
                 ELSE /\ client'.latestErrors["CallClient.createCallAgent"] = "sdk"
                      /\ client'.latestErrors["CallClient.getDeviceManager"] =
                           client.latestErrors["CallClient.getDeviceManager"]
            /\ client'.callAgent = client.callAgent
            /\ client'.callAgentState = client.callAgentState
    ]_vars

\* C19 witness: a createCallAgent call failed after an earlier one had
\* succeeded; the agent is still cached and the failure is in the log.
C19_Witness ==
  /\ client.ret.op = "createCallAgent"
  /\ client.ret.outcome = "error"
  /\ client.callAgent # NoObject
  /\ client.callAgentState = client.callAgent
  /\ client.latestErrors["CallClient.createCallAgent"] = "sdk"
  /\ client.latestErrors["CallClient.getDeviceManager"] = "multiple"

C21_SettersNoOpWhenTargetGone ==
  [][/\ \A k \in CallKeys : (~inSnapshot[k] /\ ~inSnapshot'[k]) => views'[k] = views[k]
     /\ \A k \in CallKeys : ~inSnapshot'[k] => views'[k] = NoView
     /\ \A r \in Renderers :
          (/\ task[r].state = "suspended"
           /\ ~inSnapshot[task[r].key]
           /\ lastCall'.op = "resolved"
           /\ lastCall'.r = r)
            => /\ lastCall'.result \in {"empty", "view"}
               /\ task'[r].state # "suspended"
    ]_vars

\* C21 witness: a create-view resumed after its stream had been removed; it
\* disposed its renderer and returned empty, and no view is published.
C21_Witness ==
  /\ lastCall.op = "resolved"
  /\ lastCall.seen = "removed"
  /\ lastCall.result = "empty"
  /\ lastCall.key \in CallKeys
  /\ ~inSnapshot[lastCall.key]
  /\ views[lastCall.key] = NoView
  /\ disposeCount[lastCall.r] = 1

\* C22 as stated: a dispose-view on a key with status Rendering sets
\* Stopping without a renderer and calls dispose() on no renderer.
C22_DisposeOnRenderingOnlyMarks ==
  [][\A k \in Keys :
       (lastCall'.op = "disposeView" /\ lastCall'.key = k /\ registry[k].status = "Rendering")
         => /\ registry'[k].status = "Stopping"
            /\ registry'[k].renderer = NoRenderer
            /\ disposeCount' = disposeCount
    ]_vars

\* C23 as stated: a dispose-view on a key with status Stopping keeps the
\* cancellation: the key stays Stopping and no renderer creation can start.
C23_DisposeSafeWhileStopping ==
  [][\A k \in Keys :
       (lastCall'.op = "disposeView" /\ lastCall'.key = k /\ registry[k].status = "Stopping")
         => /\ registry'[k].status = "Stopping"
            /\ registry'[k].renderer = NoRenderer
            /\ disposeCount' = disposeCount
    ]_vars

\* C24 as stated: a create-view whose creation succeeded and that finds no
\* registry entry for its key when it resumes returns empty, publishes no
\* view, writes no entry, and its renderer has then been disposed exactly
\* once.
C24_StaleCreationSuppressed ==
  [][\A r \in Renderers :
       (/\ task[r].state = "suspended"
        /\ registry[task[r].key].status = "Absent"
        /\ lastCall'.op = "resolved"
        /\ lastCall'.r = r)
         => /\ lastCall'.result = "empty"
            /\ registry'[task[r].key].status = "Absent"
            /\ views'[task[r].key] = NoView
            /\ disposeCount'[r] = 1
    ]_vars

\* C25: a dispose-view on a Rendered key calls dispose() once on the entry's
\* renderer and on no other, clears the view, and leaves a call-scoped entry
\* NotRendered without renderer (an unparented entry is deleted); a
\* create-view on a NotRendered key (or an unparented key without entry)
\* starts a creation with a new renderer.
C25_DisposeRenderedThenCreateAgain ==
  [][\A k \in Keys :
       /\ (lastCall'.op = "disposeView" /\ lastCall'.key = k /\ registry[k].status = "Rendered")
            => /\ registry'[k].status = (IF k.cls = "unparented" THEN "Absent" ELSE "NotRendered")
               /\ registry'[k].renderer = NoRenderer
               /\ views'[k] = NoView
               /\ \A r \in Renderers :
                    disposeCount'[r] = IF r = registry[k].renderer THEN disposeCount[r] + 1
                                                                  ELSE disposeCount[r]
       /\ (/\ lastCall'.op = "createView"
           /\ lastCall'.key = k
           /\ \/ registry[k].status = "NotRendered"
              \/ (k.cls = "unparented" /\ registry[k].status = "Absent"))
            => /\ lastCall'.result = "started"
               /\ lastCall'.r = nextRenderer + 1
               /\ nextRenderer' = nextRenderer + 1
               /\ registry'[k].status = "Rendering"
               /\ task'[nextRenderer + 1].state = "suspended"
    ]_vars

\* C25 witness: the first renderer was created and disposed once, and a
\* second create-view on the key has started with a second renderer.
C25_Witness ==
  /\ lastCall.op = "createView"
  /\ lastCall.result = "started"
  /\ lastCall.r = 2
  /\ registry[lastCall.key].status = "Rendering"
  /\ task[1].state = "done"
  /\ disposeCount[1] = 1
  /\ disposeCount[2] = 0

\* C26 as stated: a resumed create-view returns a (renderer, view) result
\* exactly when it has written Rendered with its renderer to the registry
\* and its view is published in the state store.
C26_ResultIffCommitted ==
  [][\A r \in Renderers :
       (task[r].state = "suspended" /\ lastCall'.op \in {"resolved", "rejected"} /\ lastCall'.r = r)
         => ((lastCall'.result = "view")
               = (/\ registry'[task[r].key].status = "Rendered"
                  /\ registry'[task[r].key].renderer = r
                  /\ views'[task[r].key] = r))
    ]_vars

\* C27: a create-view on a key with status Stopping returns empty,
\* constructs no renderer and changes neither the registry nor the views.
C27_CreateOnStoppingIsNoOp ==
  [][\A k \in Keys :
       (lastCall'.op = "createView" /\ lastCall'.key = k /\ registry[k].status = "Stopping")
         => /\ lastCall'.result = "empty"
            /\ nextRenderer' = nextRenderer
            /\ registry' = registry
            /\ views' = views
            /\ disposeCount' = disposeCount
            /\ task' = task
    ]_vars

\* C27 witness: create-view was called on a Stopping key and returned empty
\* while the cancelled creation is still suspended.
C27_Witness ==
  /\ lastCall.op = "createView"
  /\ lastCall.result = "empty"
  /\ lastCall.key \in Keys
  /\ registry[lastCall.key].status = "Stopping"
  /\ \E r \in Renderers : task[r].state = "suspended" /\ task[r].key = lastCall.key

\* C28: a create-view on a call-scoped key without entry returns empty,
\* constructs no renderer and writes no entry; on an unparented key without
\* entry it starts a creation and writes an entry with status Rendering.
C28_CreateOnAbsent ==
  [][\A k \in Keys :
       (lastCall'.op = "createView" /\ lastCall'.key = k /\ registry[k].status = "Absent")
         => IF k.cls = "unparented"
              THEN /\ lastCall'.result = "started"
                   /\ registry'[k].status = "Rendering"
                   /\ registry'[k].renderer = NoRenderer
                   /\ nextRenderer' = nextRenderer + 1
              ELSE /\ lastCall'.result = "empty"
                   /\ nextRenderer' = nextRenderer
                   /\ registry' = registry
                   /\ views' = views
                   /\ disposeCount' = disposeCount
    ]_vars

\* C28 witness: create-view returned empty for a call-scoped key without
\* entry, while an unparented creation that started without entry is in
\* flight.
C28_Witness ==
  /\ lastCall.op = "createView"
  /\ lastCall.result = "empty"
  /\ lastCall.key \in CallKeys
  /\ registry[lastCall.key].status = "Absent"
  /\ \E u \in UnparentedKeys : registry[u].status = "Rendering"

\* C29 as stated: from states in which the local key and a remote key of a
\* call show the same (status, renderer present, view published), the same
\* operation (create-view up to its suspension, dispose-view) leaves them
\* with the same values and the same dispose() calls.
C29_CallScopedUniform ==
  \A c \in ActiveCalls, p \in Participants, i \in StreamIds :
    LET l == LocalKey(c)
        m == RemoteKey(c, p, i)
        r == nextRenderer + 1
        shown(w, k) == <<w.registry[k].status, w.registry[k].renderer # NoRenderer,
                         w.views[k] # NoView>>
        disposals(w) == Cardinality({x \in Renderers : w.disposeCount[x] # disposeCount[x]})
    IN (shown(World, l) = shown(World, m) /\ inSnapshot[l] = inSnapshot[m]
          /\ nextRenderer < MaxRenderers)
         => /\ shown(CreateViewLocalVideoBegin(World, l, r).w, l)
                 = shown(CreateViewRemoteVideoBegin(World, m, r).w, m)
            /\ shown(DisposeViewLocalVideo(World, l), l)
                 = shown(DisposeViewRemoteVideo(World, m), m)
            /\ disposals(DisposeViewLocalVideo(World, l))
                 = disposals(DisposeViewRemoteVideo(World, m))

\* C30 as stated: a create-view of a call that resolves right after
\* disposeAllViewsFromCall / disposeAllViews ran publishes no view and
\* returns empty, and its renderer has then been disposed exactly once.
C30_BulkDisposeCancelsCreation ==
  [][\A r \in Renderers :
       (/\ lastCall.op \in {"disposeAllViewsFromCall", "disposeAllViews"}
        /\ task[r].state = "suspended"
        /\ task[r].key \in CallKeys
        /\ lastCall'.op = "resolved"
        /\ lastCall'.r = r)
         => /\ lastCall'.result = "empty"
            /\ views'[task[r].key] = NoView
            /\ disposeCount'[r] = 1
    ]_vars

\* C31 as stated: a create-view that returns or fails while its call-scoped
\* key has no registry entry leaves the key without entry.
C31_RemovedStaysRemoved ==
  [][\A r \in Renderers :
       (/\ task[r].state = "suspended"
        /\ task[r].key \in CallKeys
        /\ registry[task[r].key].status = "Absent"
        /\ lastCall'.op \in {"resolved", "rejected"}
        /\ lastCall'.r = r)
         => registry'[task[r].key].status = "Absent"
    ]_vars

\* C33 as stated: a key with a published view has a registry entry with
\* status Rendered that holds the renderer that produced the view.
C33_PublishedViewIsRendered ==
  \A k \in Keys :
    views[k] # NoView => /\ registry[k].status = "Rendered"
                         /\ registry[k].renderer = views[k]

\* C32: disposeAllViewsFromCall(callId) leaves the registry entry and the
\* view of every key of another call and of every unparented key unchanged,
\* disposes only renderers that entries of that call held, and leaves the
\* suspended creations of other keys as they were; disposeAllViews leaves
\* every unparented key's entry, view, renderer and creation unchanged.
C32_BulkDisposeFrame ==
  [][/\ lastCall'.op = "disposeAllViewsFromCall"
          => LET callId == lastCall'.key.call
                 outside(k) == k.cls = "unparented" \/ k.call # callId
             IN /\ \A k \in Keys : outside(k) => /\ registry'[k] = registry[k]
                                                 /\ views'[k] = views[k]
                /\ \A r \in Renderers :
                     \/ disposeCount'[r] = disposeCount[r]
                     \/ \E k \in CallKeys : k.call = callId /\ registry[k].renderer = r
                /\ \A r \in Renderers :
                     (task[r].state = "suspended" /\ outside(task[r].key)) => task'[r] = task[r]
     /\ lastCall'.op = "disposeAllViews"
          => /\ \A k \in UnparentedKeys : registry'[k] = registry[k] /\ views'[k] = views[k]
             /\ \A r \in Renderers :
                  \/ disposeCount'[r] = disposeCount[r]
                  \/ \E k \in CallKeys : registry[k].renderer = r
             /\ \A r \in Renderers :
                  (task[r].state = "suspended" /\ task[r].key \in UnparentedKeys)
                    => task'[r] = task[r]
    ]_vars

\* C32 witness: a bulk disposal of one call disposed that call's renderer
\* while a stream of another call is rendered with its view published.
C32_Witness ==
  /\ lastCall.op = "disposeAllViewsFromCall"
  /\ \E r \in Renderers : disposeCount[r] = 1
  /\ \E k \in CallKeys : /\ k.call # lastCall.key.call
                         /\ registry[k].status = "Rendered"
                         /\ views[k] = registry[k].renderer

\* C34: if every renderer creation eventually succeeds or fails, a key with
\* status Rendering or Stopping eventually has status Rendered or NotRendered
\* or no entry, every suspended create-view eventually returns or fails, and
\* in every state a key with status Rendering or Stopping has a suspended
\* create-view.  (P ~> ~P is written []<>~P, which is the same property.)
C34_TransientStatusesAreLeft ==
  /\ \A k \in ActiveKeys \cup UnparentedKeys :
       []<>(registry[k].status \in {"Rendered", "NotRendered", "Absent"})
  /\ \A r \in Renderers : []<>(task[r].state # "suspended")
  /\ [](\A k \in Keys :
          registry[k].status \in {"Rendering", "Stopping"}
            => \E r \in Renderers : task[r].state = "suspended" /\ task[r].key = k)

\* C34 witness: a creation cancelled into Stopping has resolved and left its
\* call-scoped key NotRendered with no create-view suspended on it.
C34_Witness ==
  /\ lastCall.op = "resolved"
  /\ lastCall.seen = "cancelled"
  /\ lastCall.key \in CallKeys
  /\ registry[lastCall.key].status = "NotRendered"
  /\ \A r \in Renderers : task[r].state # "suspended"

\* C35 as stated: when a resumed create-view writes the registry entry of a
\* call-scoped key that has an entry, the entry keeps the stream reference it
\* held before the write.
C35_WritesKeepCurrentStream ==
  [][\A r \in Renderers :
       (/\ task[r].state = "suspended"
        /\ task[r].key \in CallKeys
        /\ registry[task[r].key].status # "Absent"
        /\ lastCall'.op \in {"resolved", "rejected"}
        /\ lastCall'.r = r)
         => registry'[task[r].key].stream = registry[task[r].key].stream
    ]_vars

\* C36 as stated: onSubmit is invoked only with a text whose trimmed length
\* is positive and whose length is at most 8000; a blank text is 'too short'
\* and a text longer than 8000 characters is 'too long'.
C36_SubmitOnlyWhenOk ==
  /\ editBox.submitted # NoText
       => /\ Length(Trim(editBox.submitted)) > 0
          /\ Length(editBox.submitted) <= MAXIMUM_LENGTH_OF_MESSAGE
  /\ Length(Trim(editBox.textValue)) = 0 => getMessageState(editBox.textValue) = "too short"
  /\ Length(editBox.textValue) > MAXIMUM_LENGTH_OF_MESSAGE
       => getMessageState(editBox.textValue) = "too long"

\* C36 amended: onSubmit is invoked, by Enter or by the submit button,
\* exactly when the current text has positive trimmed length and length at
\* most 8000, and with that text; a blank text is 'too short' whatever its
\* length, and a text longer than 8000 characters that is not blank is
\* 'too long'.
C36_SubmitOnlyWhenOkNotBlank ==
  LET text == editBox.textValue
      ok == Length(Trim(text)) > 0 /\ Length(text) <= MAXIMUM_LENGTH_OF_MESSAGE
  IN /\ editBox.submitted # NoText => (ok /\ editBox.submitted = text)
     /\ (editBox.event \in {"enter", "click"} /\ ok) => editBox.submitted = text
     /\ editBox.event \notin {"enter", "click"} => editBox.submitted = NoText
     /\ (getMessageState(text) = "OK") = ok
     /\ Length(Trim(text)) = 0 => getMessageState(text) = "too short"
     /\ (Length(text) > MAXIMUM_LENGTH_OF_MESSAGE /\ Length(Trim(text)) > 0)
          => getMessageState(text) = "too long"

\* C36 witness: Enter was pressed on a text of exactly 8000 characters with
\* whitespace at both ends, and it was submitted.
C36_Witness ==
  /\ editBox.event = "enter"
  /\ editBox.submitted = editBox.textValue
  /\ Length(editBox.textValue) = MAXIMUM_LENGTH_OF_MESSAGE
  /\ editBox.textValue.lead = 1
  /\ editBox.textValue.trail = 1

\* C37: for n children and k blocks, 1 <= k <= n, the first n - numBigCells
\* children span units/max and the last numBigCells span units/min when
\* max # min; the spans sum to k * units, and the children fill exactly k
\* blocks of units each.
C37_GridFillsEveryBlock ==
  LET n == gridLayout.numberOfChildren
      k == gridLayout.blockProps.numBlocks
      max == Ceil(n, k)
      min == Floor(n, k)
      big == (k - (n % k)) * min
      Sum[i \in 0..n] == IF i = 0 THEN 0 ELSE Sum[i - 1] + gridLayout.spans[i]
  IN (1 <= k /\ k <= n)
       => /\ gridLayout.units = max * min
          /\ \A i \in 1..n :
               gridLayout.spans[i] = IF max # min /\ i > n - big
                                       THEN gridLayout.units \div min
                                       ELSE gridLayout.units \div max
          /\ \A i \in 1..n : gridLayout.spans[i] * (IF max # min /\ i > n - big THEN min ELSE max)
                               = gridLayout.units
          /\ Sum[n] = k * gridLayout.units
          /\ Len(gridLayout.blocks) = k
          /\ \A b \in 1..k : gridLayout.blocks[b] = gridLayout.units

\* C37 witness: a layout whose blocks have two different sizes, after a
\* resize: 7 children in 3 blocks.
C37_Witness ==
  /\ gridLayout.numberOfChildren = 7
  /\ gridLayout.blockProps.numBlocks = 3
  /\ ~gridLayout.blockProps.horizontal
  /\ gridLayout.units = 6
  /\ gridLayout.spans = <<2, 2, 2, 3, 3, 3, 3>>
  /\ gridLayout.blocks = <<6, 6, 6>>

====
